---- MODULE Spec2Model ----
(***************************************************************************)
(* Model of pkg/xurlfind3r/sources/wayback/wayback.go: Source.Run (the     *)
(* index producer, the dispatcher, one unit per index URL, the barrier),   *)
(* getWaybackURLs, getWaybackSnapshots and getWaybackContent.              *)
(*                                                                         *)
(* A string is a sequence of tokens (scheme, "://", host labels, ".", "/", *)
(* path words, "?", "#"), so that the two regular expressions and the      *)
(* scope test are computed on the text of a URL.                           *)
(***************************************************************************)
EXTENDS Integers, Sequences, FiniteSets, TLC

(***************************************************************************)
(* Bounds of the model.                                                    *)
(***************************************************************************)
\* lines in the body of the index response
MaxLines == 2
\* raw entries in the JSON array of a snapshot response
MaxEntries == 3
\* items in the body of a replayed capture
MaxBody == 2
\* calls of the fetchers when they are checked on their own
MaxCalls == 2

(***************************************************************************)
(* Strings of the model.                                                   *)
(***************************************************************************)
Blank == <<>>
RootDomain == <<"example", ".", "com">>
UrlA == <<"http", "://", "example", ".", "com", "/", "a">>
UrlSub == <<"http", "://", "sub", ".", "example", ".", "com", "/", "b">>
UrlRobots == <<"https", "://", "example", ".", "com", "/", "robots", ".", "txt">>
UrlMedia == <<"http", "://", "example", ".", "com", "/", "i", ".", "PNG", "?", "v">>
UrlDeepRobots == <<"http", "://", "example", ".", "com", "/", "a", "/", "robots", ".", "txt">>
UrlRobotsQuery == <<"https", "://", "example", ".", "com", "/", "robots", ".", "txt", "?", "x">>
UrlFtpRobots == <<"ftp", "://", "example", ".", "com", "/", "robots", ".", "txt">>
UrlRobotsDash == <<"http", "://", "example", ".", "com", "/", "robots", "-", "txt">>
UrlMediaRobots == <<"http", "://", "example", ".", "com", "/", "i", ".", "png", "?", "/", "robots", ".", "txt">>
UrlMediaUpper == <<"http", "://", "example", ".", "com", "/", "i", ".", "JPG">>
UrlMediaMixed == <<"http", "://", "example", ".", "com", "/", "f", ".", "Woff2", "#", "x">>
UrlRobotsSpace == <<"http", "://", "example", ".", "com", "/", "robots", " ", "txt">>
UrlRobotsQuote == <<"http", "://", "example", ".", "com", "/", "robots", "\"", "txt">>
UrlRobotsQueryRobots ==
  <<"https", "://", "example", ".", "com", "/", "robots", ".", "txt", "?", "u", "=",
    "/", "robots", ".", "txt">>
UrlDeepRobotsQuery ==
  <<"http", "://", "example", ".", "com", "/", "a", "/", "robots", ".", "txt", "?", "x">>
UrlRobotsFragment ==
  <<"http", "://", "example", ".", "com", "/", "robots", ".", "txt", "#", "/", "robots", ".", "txt">>
UrlRobotsMark == <<"http", "://", "example", ".", "com", "/", "robots", "?", "txt">>
UrlNoHostRobots == <<"http", "://", "/", "robots", ".", "txt">>
UrlSpaceRobots == <<"http", "://", "example", ".", "com", "/", " ", "/", "robots", ".", "txt">>
CandIn == <<"http", "://", "example", ".", "com", "/", "sitemap", ".", "xml">>
CandOut == <<"http", "://", "evil", ".", "com", "/", "x">>
Fingerprint == <<"This page can't be displayed. Please use the correct URL address to access">>

\* the lines an index response is made of
Lines == {Blank, UrlA, UrlSub, UrlRobots, UrlMedia}
\* the items the body of a replayed capture is made of
Items == {Fingerprint, CandIn, CandOut}

SeqsUpTo(S, n) == UNION {[1..k -> S] : k \in 0..n}

MediaExts ==
  {"apng", "bpm", "png", "bmp", "gif", "heif", "ico", "cur", "jpg", "jpeg",
   "jfif", "pjp", "pjpeg", "psd", "raw", "svg", "tif", "tiff", "webp", "xbm",
   "3gp", "aac", "flac", "mpg", "mpeg", "mp3", "mp4", "m4a", "m4v", "m4p",
   "oga", "ogg", "ogv", "mov", "wav", "webm", "eot", "woff", "woff2", "ttf",
   "otf"}

\* the (?i) flag of mediaURLRegex: each listed extension with the spellings
\* that match it, letter by letter in either case; "s" is matched by the
\* long s too, written {U+017F} here
Spellings ==
  {<<"apng",
      {"apng", "apnG", "apNg", "apNG", "aPng", "aPnG", "aPNg", "aPNG",
       "Apng", "ApnG", "ApNg", "ApNG", "APng", "APnG", "APNg", "APNG"}>>,
   <<"bpm",
      {"bpm", "bpM", "bPm", "bPM", "Bpm", "BpM", "BPm", "BPM"}>>,
   <<"png",
      {"png", "pnG", "pNg", "pNG", "Png", "PnG", "PNg", "PNG"}>>,
   <<"bmp",
      {"bmp", "bmP", "bMp", "bMP", "Bmp", "BmP", "BMp", "BMP"}>>,
   <<"gif",
      {"gif", "giF", "gIf", "gIF", "Gif", "GiF", "GIf", "GIF"}>>,
   <<"heif",
      {"heif", "heiF", "heIf", "heIF", "hEif", "hEiF", "hEIf", "hEIF",
       "Heif", "HeiF", "HeIf", "HeIF", "HEif", "HEiF", "HEIf", "HEIF"}>>,
   <<"ico",
      {"ico", "icO", "iCo", "iCO", "Ico", "IcO", "ICo", "ICO"}>>,
   <<"cur",
      {"cur", "cuR", "cUr", "cUR", "Cur", "CuR", "CUr", "CUR"}>>,
   <<"jpg",
      {"jpg", "jpG", "jPg", "jPG", "Jpg", "JpG", "JPg", "JPG"}>>,
   <<"jpeg",
      {"jpeg", "jpeG", "jpEg", "jpEG", "jPeg", "jPeG", "jPEg", "jPEG",
       "Jpeg", "JpeG", "JpEg", "JpEG", "JPeg", "JPeG", "JPEg", "JPEG"}>>,
   <<"jfif",
      {"jfif", "jfiF", "jfIf", "jfIF", "jFif", "jFiF", "jFIf", "jFIF",
       "Jfif", "JfiF", "JfIf", "JfIF", "JFif", "JFiF", "JFIf", "JFIF"}>>,
   <<"pjp",
      {"pjp", "pjP", "pJp", "pJP", "Pjp", "PjP", "PJp", "PJP"}>>,
   <<"pjpeg",
      {"pjpeg", "pjpeG", "pjpEg", "pjpEG", "pjPeg", "pjPeG", "pjPEg",
       "pjPEG", "pJpeg", "pJpeG", "pJpEg", "pJpEG", "pJPeg", "pJPeG",
       "pJPEg", "pJPEG", "Pjpeg", "PjpeG", "PjpEg", "PjpEG", "PjPeg",
       "PjPeG", "PjPEg", "PjPEG", "PJpeg", "PJpeG", "PJpEg", "PJpEG",
       "PJPeg", "PJPeG", "PJPEg", "PJPEG"}>>,
   <<"psd",
      {"psd", "psD", "pSd", "pSD", "p{U+017F}d", "p{U+017F}D", "Psd", "PsD",
       "PSd", "PSD", "P{U+017F}d", "P{U+017F}D"}>>,
   <<"raw",
      {"raw", "raW", "rAw", "rAW", "Raw", "RaW", "RAw", "RAW"}>>,
   <<"svg",
      {"svg", "svG", "sVg", "sVG", "Svg", "SvG", "SVg", "SVG", "{U+017F}vg",
       "{U+017F}vG", "{U+017F}Vg", "{U+017F}VG"}>>,
   <<"tif",
      {"tif", "tiF", "tIf", "tIF", "Tif", "TiF", "TIf", "TIF"}>>,
   <<"tiff",
      {"tiff", "tifF", "tiFf", "tiFF", "tIff", "tIfF", "tIFf", "tIFF",
       "Tiff", "TifF", "TiFf", "TiFF", "TIff", "TIfF", "TIFf", "TIFF"}>>,
   <<"webp",
      {"webp", "webP", "weBp", "weBP", "wEbp", "wEbP", "wEBp", "wEBP",
       "Webp", "WebP", "WeBp", "WeBP", "WEbp", "WEbP", "WEBp", "WEBP"}>>,
   <<"xbm",
      {"xbm", "xbM", "xBm", "xBM", "Xbm", "XbM", "XBm", "XBM"}>>,
   <<"3gp",
      {"3gp", "3gP", "3Gp", "3GP"}>>,
   <<"aac",
      {"aac", "aaC", "aAc", "aAC", "Aac", "AaC", "AAc", "AAC"}>>,
   <<"flac",
      {"flac", "flaC", "flAc", "flAC", "fLac", "fLaC", "fLAc", "fLAC",
       "Flac", "FlaC", "FlAc", "FlAC", "FLac", "FLaC", "FLAc", "FLAC"}>>,
   <<"mpg",
      {"mpg", "mpG", "mPg", "mPG", "Mpg", "MpG", "MPg", "MPG"}>>,
   <<"mpeg",
      {"mpeg", "mpeG", "mpEg", "mpEG", "mPeg", "mPeG", "mPEg", "mPEG",
       "Mpeg", "MpeG", "MpEg", "MpEG", "MPeg", "MPeG", "MPEg", "MPEG"}>>,
   <<"mp3",
      {"mp3", "mP3", "Mp3", "MP3"}>>,
   <<"mp4",
      {"mp4", "mP4", "Mp4", "MP4"}>>,
   <<"m4a",
      {"m4a", "m4A", "M4a", "M4A"}>>,
   <<"m4v",
      {"m4v", "m4V", "M4v", "M4V"}>>,
   <<"m4p",
      {"m4p", "m4P", "M4p", "M4P"}>>,
   <<"oga",
      {"oga", "ogA", "oGa", "oGA", "Oga", "OgA", "OGa", "OGA"}>>,
   <<"ogg",
      {"ogg", "ogG", "oGg", "oGG", "Ogg", "OgG", "OGg", "OGG"}>>,
   <<"ogv",
      {"ogv", "ogV", "oGv", "oGV", "Ogv", "OgV", "OGv", "OGV"}>>,
   <<"mov",
      {"mov", "moV", "mOv", "mOV", "Mov", "MoV", "MOv", "MOV"}>>,
   <<"wav",
      {"wav", "waV", "wAv", "wAV", "Wav", "WaV", "WAv", "WAV"}>>,
   <<"webm",
      {"webm", "webM", "weBm", "weBM", "wEbm", "wEbM", "wEBm", "wEBM",
       "Webm", "WebM", "WeBm", "WeBM", "WEbm", "WEbM", "WEBm", "WEBM"}>>,
   <<"eot",
      {"eot", "eoT", "eOt", "eOT", "Eot", "EoT", "EOt", "EOT"}>>,
   <<"woff",
      {"woff", "wofF", "woFf", "woFF", "wOff", "wOfF", "wOFf", "wOFF",
       "Woff", "WofF", "WoFf", "WoFF", "WOff", "WOfF", "WOFf", "WOFF"}>>,
   <<"woff2",
      {"woff2", "wofF2", "woFf2", "woFF2", "wOff2", "wOfF2", "wOFf2",
       "wOFF2", "Woff2", "WofF2", "WoFf2", "WoFF2", "WOff2", "WOfF2",
       "WOFf2", "WOFF2"}>>,
   <<"ttf",
      {"ttf", "ttF", "tTf", "tTF", "Ttf", "TtF", "TTf", "TTF"}>>,
   <<"otf",
      {"otf", "otF", "oTf", "oTF", "Otf", "OtF", "OTf", "OTF"}>>}

AllSpellings == UNION {sp[2] : sp \in Spellings}

\* the listed extension a token is a spelling of, any other token unchanged
Lower(t) ==
  IF t \in AllSpellings
  THEN (CHOOSE sp \in Spellings : t \in sp[2])[1]
  ELSE t

\* the host of a URL: what follows "://" up to the first "/", "?" or "#"
HostEnd(URL, i) ==
  IF \E j \in i..Len(URL) : URL[j] \in {"/", "?", "#"}
  THEN (CHOOSE j \in i..Len(URL) :
          /\ URL[j] \in {"/", "?", "#"}
          /\ \A k \in i..(j - 1) : URL[k] \notin {"/", "?", "#"}) - 1
  ELSE Len(URL)
Host(URL) ==
  IF Len(URL) >= 3 /\ URL[2] = "://"
  THEN SubSeq(URL, 3, HostEnd(URL, 3))
  ELSE <<>>

\* mediaURLRegex.MatchString: "." then a listed extension then "?", "#" or the end
mediaURLRegex(URL) ==
  \E i \in 1..Len(URL) :
    /\ URL[i] = "."
    /\ i + 1 <= Len(URL)
    /\ Lower(URL[i + 1]) \in MediaExts
    /\ \/ i + 1 = Len(URL)
       \/ URL[i + 2] \in {"?", "#"}

\* a pattern that accepts /robots.txt right after the host only
robotsURLsRegexRootOnly(URL) ==
  /\ Len(URL) = HostEnd(URL, 3) + 4
  /\ URL[1] \in {"http", "https"}
  /\ URL[2] = "://"
  /\ SubSeq(URL, Len(URL) - 3, Len(URL)) = <<"/", "robots", ".", "txt">>

\* the tokens of the model that are one character long
OneChar ==
  {".", "/", "?", "#", "-", "*", "=", " ", "\"", "a", "b", "f", "i", "u", "v", "x"}

\* robotsURLsRegex.MatchString: ^(https?)://[^ "]+/robots.txt$
\* [^ "]+ is what lies between "://" and the last "/robots"; the unescaped
\* "." accepts any one character, a space or a quote included
robotsURLsRegex(URL) ==
  LET n == Len(URL) IN
  /\ n >= 7
  /\ URL[1] \in {"http", "https"}
  /\ URL[2] = "://"
  /\ \A i \in 3..(n - 4) : URL[i] \notin {" ", "\""}
  /\ URL[n - 3] = "/"
  /\ URL[n - 2] = "robots"
  /\ URL[n - 1] \in OneChar
  /\ URL[n] = "txt"

\* host is domain with at least one more label in front
IsSubdomain(host, domain) ==
  LET h == Len(host)
      d == Len(domain)
  IN /\ d > 0
     /\ h >= d + 2
     /\ host[h - d] = "."
     /\ SubSeq(host, h - d + 1, h) = domain

\* sources.IsInScope(URL, domain, includeSubdomains)
IsInScope(URL, domain, includeSubdomains) ==
  LET host == Host(URL) IN
  /\ host # <<>>
  /\ \/ host = domain
     \/ includeSubdomains /\ IsSubdomain(host, domain)

(***************************************************************************)
(* The archive's responses and the three fetchers.                         *)
(***************************************************************************)
\* index response: a transport failure, or a body of lines that the scanner
\* reads to the end ("none") or fails on after the lines shown ("scan")
IndexResponses ==
  {[failure |-> "transport", lines |-> <<>>]} \cup
  [failure : {"none", "scan"}, lines : SeqsUpTo(Lines, MaxLines)]

RECURSIVE NonBlank(_)
NonBlank(lines) ==
  IF lines = <<>> THEN <<>>
  ELSE IF Head(lines) = Blank THEN NonBlank(Tail(lines))
  ELSE <<Head(lines)>> \o NonBlank(Tail(lines))

\* getWaybackURLs: the URLs scanned and whether err # nil
getWaybackURLs(res) ==
  IF res.failure = "transport"
  THEN [URLs |-> <<>>, err |-> TRUE]
  ELSE [URLs |-> NonBlank(res.lines), err |-> res.failure = "scan"]

Stamps == <<"t1", "t2", "t3", "t4", "t5", "t6">>
\* the JSON array of a snapshot response: the first entry, then the captures
RawEntries(n, URL) ==
  [i \in 1..n |-> IF i = 1 THEN <<"timestamp", <<"original">>>>
                  ELSE <<Stamps[i - 1], URL>>]

\* the k-th element of a row when the JSON value there is a number, when it
\* is null, and the empty string a [2]string holds where nothing was stored
JSONNumber(k) == IF k = 1 THEN "#number" ELSE <<"#number">>
JSONNull(k) == IF k = 1 THEN "#null" ELSE <<"#null">>
Empty(k) == IF k = 1 THEN "" ELSE Blank

\* the rows an array can end in besides a pair of strings: one element, three
\* elements, a number or a null in the place of either string
OddRows(stamp, URL) ==
  {<<stamp>>, <<stamp, URL, <<"x">>>>,
   <<stamp, JSONNumber(2)>>, <<stamp, JSONNull(2)>>,
   <<JSONNumber(1), URL>>, <<JSONNull(1), URL>>}

\* the JSON arrays of rows: 0..MaxEntries pairs, or the last row an odd one
JSONArrays(URL) ==
  {RawEntries(n, URL) : n \in 0..MaxEntries} \cup
  UNION {{[RawEntries(n, URL) EXCEPT ![n] = row] :
            row \in OddRows(RawEntries(n, URL)[n][1], URL)} : n \in 1..MaxEntries}

\* snapshot response: transport failure, Content-Length 0, a body that is
\* not JSON or is a JSON value other than an array or null ("badjson"), the
\* body null, or a JSON array of rows
SnapshotResponses(URL) ==
  [kind : {"transport", "nolength", "badjson", "null"}, entries : {<<>>}] \cup
  {[kind |-> "json", entries |-> rows] : rows \in JSONArrays(URL)}

\* json.Unmarshal of one row into a [2]string: the row is cut or padded to
\* two elements; a number is not stored, a null leaves the element as it is
Element(row, k) ==
  IF k > Len(row) THEN Empty(k)
  ELSE IF row[k] \in {JSONNumber(k), JSONNull(k)} THEN Empty(k)
  ELSE row[k]
Pair(row) == <<Element(row, 1), Element(row, 2)>>
Decoded(entries) == [i \in 1..Len(entries) |-> Pair(entries[i])]

\* json.Unmarshal returns an *UnmarshalTypeError, after decoding every row
TypeError(entries) ==
  \E i \in 1..Len(entries) : \E k \in 1..2 :
    k <= Len(entries[i]) /\ entries[i][k] = JSONNumber(k)

\* getWaybackSnapshots: the snapshots returned and whether err # nil
getWaybackSnapshots(res) ==
  CASE res.kind = "transport" -> [snapshots |-> <<>>, err |-> TRUE]
    [] res.kind = "nolength" -> [snapshots |-> <<>>, err |-> FALSE]
    [] res.kind = "badjson" -> [snapshots |-> <<>>, err |-> TRUE]
    [] res.kind = "null" -> [snapshots |-> <<>>, err |-> FALSE]
    [] OTHER ->
         LET snapshots == Decoded(res.entries) IN
         IF TypeError(res.entries)
         THEN [snapshots |-> snapshots, err |-> TRUE]
         ELSE IF Len(snapshots) < 2
         THEN [snapshots |-> snapshots, err |-> FALSE]
         ELSE [snapshots |-> Tail(snapshots), err |-> FALSE]

\* content response: transport failure, or a body of 0..MaxBody items
ContentResponses ==
  {[failure |-> TRUE, body |-> <<>>]} \cup
  [failure : {FALSE}, body : SeqsUpTo(Items, MaxBody)]

\* strings.Contains(content, s), s being one item of a body
Contains(content, s) == \E i \in 1..Len(content) : content[i] = s

\* getWaybackContent without the test of lines 206-210
getWaybackContentUntested(res) ==
  IF res.failure THEN [content |-> <<>>, err |-> TRUE]
  ELSE [content |-> res.body, err |-> FALSE]

\* getWaybackContent: the content returned and whether err # nil
getWaybackContent(res) ==
  IF res.failure THEN [content |-> <<>>, err |-> TRUE]
  ELSE IF res.body = <<>> THEN [content |-> <<>>, err |-> FALSE]
  ELSE IF Contains(res.body, Fingerprint) THEN [content |-> res.body, err |-> TRUE]
  ELSE [content |-> res.body, err |-> FALSE]

\* Source.Name
Name == "wayback"

\* what the archive answers to the snapshot and content requests of a run:
\* every kind of failure, arrays of no, one and two rows of two elements,
\* bodies of no and one item
ArchiveSnapshots(URL) ==
  [kind : {"transport", "nolength", "badjson", "null"}, entries : {<<>>}] \cup
  {[kind |-> "json", entries |-> RawEntries(n, URL)] : n \in 0..2} \cup
  {[kind |-> "json",
    entries |-> [RawEntries(n, URL) EXCEPT ![n] = <<@[1], JSONNumber(2)>>]] : n \in 1..2}
ArchiveContents == {res \in ContentResponses : Len(res.body) <= 1}

(***************************************************************************)
(* The expanders: the candidate URLs found in the content of one capture.  *)
(***************************************************************************)
RECURSIVE Candidates(_, _, _)
Candidates(expander, domain, content) ==
  IF content = <<>> THEN <<>>
  ELSE LET c == Head(content)
           keep == /\ c # Fingerprint
                   /\ \/ expander = "robots"
                      \/ Host(c) = domain
                      \/ IsSubdomain(Host(c), domain)
       IN (IF keep THEN <<c>> ELSE <<>>) \o Candidates(expander, domain, Tail(content))

(***************************************************************************)
(* State.                                                                  *)
(***************************************************************************)
VARIABLES
  config,        \* sources.Configuration, read-only during the run
  domain,        \* the domain parameter of Run, captured by every closure
  response,      \* what the archive answers to the index query
  producer,      \* the goroutine of lines 36-61: at the rewrite of line 44,
                 \* in limiter.Wait, in SimpleGet, in its loop, returned
  waybackURLs,   \* the internal stream: "open" or "closed"
  dispatcher,    \* the goroutine of lines 30-112: "range", "wait", "done"
  wg,            \* the counter of the sync.WaitGroup
  units,         \* the goroutines of lines 72-108, in the order they started
  URLsChannel,   \* the output stream: how often it was closed
  consumer,      \* TRUE while the caller of Run keeps receiving
  limiter,       \* completed limiter.Wait calls and the requests issued
  call           \* the fetchers checked on their own: the calls that are in
                 \* SimpleGet, and the response and return of the last one
                 \* that returned

vars == <<config, domain, response, producer, waybackURLs, dispatcher, wg,
          units, URLsChannel, consumer, limiter, call>>

Configurations ==
  [IncludeSubdomains : BOOLEAN, ParseWaybackRobots : BOOLEAN, ParseWaybackSource : BOOLEAN]

NoCall == [fn |-> "none", flying |-> [index |-> 0, snapshots |-> 0, content |-> 0]]

\* the values the state of a run takes
TypeOK ==
  /\ config \in Configurations
  /\ domain \in {RootDomain, <<"*", ".">> \o RootDomain}
  /\ response \in IndexResponses
  /\ producer.pc \in {"rewrite", "wait", "get", "send", "done"}
  /\ producer.results \in SeqsUpTo(Lines \ {Blank}, MaxLines)
  /\ producer.index \in 1..(MaxLines + 1)
  /\ waybackURLs \in {"open", "closed"}
  /\ dispatcher \in {"range", "wait", "done"}
  /\ wg \in 0..MaxLines
  /\ Len(units) <= MaxLines
  /\ \A u \in 1..Len(units) :
       /\ units[u].URL \in Lines \ {Blank}
       /\ units[u].pc \in {"scope", "emit", "snapshots", "snapshotsGet", "content",
                           "contentGet", "done"}
       /\ units[u].expander \in {"none", "robots", "source"}
  /\ URLsChannel.closes \in 0..1
  /\ consumer \in BOOLEAN
  /\ limiter.waits = limiter.index + limiter.snapshots + limiter.content

Init ==
  /\ config \in Configurations
  /\ domain = RootDomain
  /\ response \in IndexResponses
  /\ producer = [pc |-> "rewrite", results |-> <<>>, index |-> 1]
  /\ waybackURLs = "open"
  /\ dispatcher = "range"
  /\ wg = 0
  /\ units = <<>>
  /\ URLsChannel = [closes |-> 0]
  /\ consumer = TRUE
  /\ limiter = [waits |-> 0, index |-> 0, snapshots |-> 0, content |-> 0]
  /\ call = NoCall

(***************************************************************************)
(* The rate limiter, lines 21-25, and the requests made under it.          *)
(***************************************************************************)
\* a fetcher that goes to the network without limiter.Wait()
AcquireSkipped(l) == l

\* limiter.Wait() returns (lines 124, 156, 189)
Acquire(l) == [l EXCEPT !.waits = @ + 1]

\* a request that is sent again
RequestRetried(l, kind) == [l EXCEPT ![kind] = @ + 2]

\* httpclient.SimpleGet (lines 128, 160, 193): one request of the kind
Request(l, kind) == [l EXCEPT ![kind] = @ + 1]

(***************************************************************************)
(* The index producer, lines 36-61.                                        *)
(***************************************************************************)
\* `if config.IncludeSubdomains { domain = "*." + domain }`
Wildcard(d) == IF config.IncludeSubdomains THEN <<"*", ".">> \o d ELSE d

\* the loop of lines 53-60 from position i on: the next entry it sends
RECURSIVE NextSend(_, _)
NextSend(results, i) ==
  IF i > Len(results) THEN i
  ELSE IF results[i] = Blank THEN NextSend(results, i + 1)
  ELSE i

\* lines 48-53 without the return of lines 49-51
RunResultsUnchecked(ret) == ret.URLs

\* lines 48-53: the entries the loop runs over, none when err # nil
RunResults(ret) == IF ret.err THEN <<>> ELSE ret.URLs

\* lines 44-46: the rewrite of domain; the producer then calls
\* getWaybackURLs and blocks in limiter.Wait (line 124)
IndexRewrite ==
  /\ producer.pc = "rewrite"
  /\ domain' = Wildcard(domain)
  /\ producer' = [producer EXCEPT !.pc = "wait"]
  /\ UNCHANGED <<config, response, waybackURLs, dispatcher, wg, units, URLsChannel,
                 consumer, limiter, call>>

\* lines 124-128: limiter.Wait returns and the index request is issued; the
\* producer blocks in SimpleGet
IndexWait ==
  /\ producer.pc = "wait"
  /\ limiter' = Request(Acquire(limiter), "index")
  /\ producer' = [producer EXCEPT !.pc = "get"]
  /\ UNCHANGED <<config, domain, response, waybackURLs, dispatcher, wg, units,
                 URLsChannel, consumer, call>>

\* lines 128-146 and 48-51: SimpleGet returns, the body is scanned, and Run
\* has the result
IndexFetch ==
  /\ producer.pc = "get"
  /\ producer' = [producer EXCEPT !.pc = "send",
                                  !.results = RunResults(getWaybackURLs(response))]
  /\ UNCHANGED <<config, domain, response, waybackURLs, dispatcher, wg, units,
                 URLsChannel, consumer, limiter, call>>

NewUnit(URL) ==
  [URL |-> URL, pc |-> "scope", expander |-> "none",
   snapshots |-> <<>>, candidates |-> <<>>, sent |-> <<>>]

\* a producer that rewrites domain inside its loop, at each send
DispatchRewriting ==
  /\ producer.pc = "send"
  /\ dispatcher = "range"
  /\ LET i == NextSend(producer.results, producer.index) IN
       /\ i <= Len(producer.results)
       /\ producer' = [producer EXCEPT !.index = i + 1]
       /\ wg' = wg + 1
       /\ units' = Append(units, NewUnit(producer.results[i]))
  /\ domain' = Wildcard(domain)
  /\ UNCHANGED <<config, response, waybackURLs, dispatcher, URLsChannel,
                 consumer, limiter, call>>

\* a dispatcher that receives the next URL only when no unit is running
DispatchSerial ==
  /\ producer.pc = "send"
  /\ dispatcher = "range"
  /\ wg = 0
  /\ LET i == NextSend(producer.results, producer.index) IN
       /\ i <= Len(producer.results)
       /\ producer' = [producer EXCEPT !.index = i + 1]
       /\ wg' = wg + 1
       /\ units' = Append(units, NewUnit(producer.results[i]))
  /\ UNCHANGED <<config, domain, response, waybackURLs, dispatcher, URLsChannel,
                 consumer, limiter, call>>

\* line 59 meets line 69: the producer sends, the dispatcher receives and
\* starts a unit (lines 70-72)
Dispatch ==
  /\ producer.pc = "send"
  /\ dispatcher = "range"
  /\ LET i == NextSend(producer.results, producer.index) IN
       /\ i <= Len(producer.results)
       /\ producer' = [producer EXCEPT !.index = i + 1]
       /\ wg' = wg + 1
       /\ units' = Append(units, NewUnit(producer.results[i]))
  /\ UNCHANGED <<config, domain, response, waybackURLs, dispatcher, URLsChannel,
                 consumer, limiter, call>>

\* the producer returns (line 50, or the end of the loop of lines 53-60)
\* and the deferred close of line 37 runs
ProducerClose ==
  /\ producer.pc = "send"
  /\ NextSend(producer.results, producer.index) > Len(producer.results)
  /\ producer' = [producer EXCEPT !.pc = "done"]
  /\ waybackURLs' = "closed"
  /\ UNCHANGED <<config, domain, response, dispatcher, wg, units, URLsChannel,
                 consumer, limiter, call>>

(***************************************************************************)
(* The dispatcher, lines 67-112.                                           *)
(***************************************************************************)
\* the range of line 69 ends once the internal stream is closed
RangeEnd ==
  /\ dispatcher = "range"
  /\ waybackURLs = "closed"
  /\ dispatcher' = "wait"
  /\ UNCHANGED <<config, domain, response, producer, waybackURLs, wg, units,
                 URLsChannel, consumer, limiter, call>>

\* a Wait that does not wait
WaitReturnsAtOnce(counter) == TRUE

\* wg.Wait() returns
WaitReturns(counter) == counter = 0

\* line 111, then the deferred close of line 31
WaitClose ==
  /\ dispatcher = "wait"
  /\ WaitReturns(wg)
  /\ dispatcher' = "done"
  /\ URLsChannel' = [URLsChannel EXCEPT !.closes = @ + 1]
  /\ UNCHANGED <<config, domain, response, producer, waybackURLs, wg, units,
                 consumer, limiter, call>>

(***************************************************************************)
(* One unit, lines 72-108.                                                 *)
(***************************************************************************)
Running(u) == u \in 1..Len(units)

\* a unit that returns without wg.Done()
DoneMissing(counter) == counter

\* `defer wg.Done()`
Done(counter) == counter - 1

\* the unit returns: its locals are gone, the barrier is told
Returned(unit) ==
  [unit EXCEPT !.pc = "done", !.snapshots = <<>>, !.candidates = <<>>]

\* a send that completes without a receiver
CanSendBuffered == TRUE

\* an unbuffered send completes when the consumer receives
CanSend == consumer

\* `URLsChannel <- sources.URL{Source: ..., Value: ...}`
Sent(unit, Source, Value) ==
  [unit EXCEPT !.sent = Append(@, [Source |-> Source, Value |-> Value])]

\* a candidate sent under the Source of the index URLs
TagPlain(expander) == Name

\* the Source of the Records an expander's candidates are sent with
Tag(expander) == Name \o ":" \o expander

\* lines 81-99 with the test of line 99 left out
ExpanderUnguarded(URL) ==
  IF ~config.ParseWaybackRobots /\ ~config.ParseWaybackSource THEN "none"
  ELSE IF mediaURLRegex(URL) THEN "none"
  ELSE IF config.ParseWaybackRobots /\ robotsURLsRegex(URL) THEN "robots"
  ELSE IF config.ParseWaybackSource THEN "source"
  ELSE "none"

\* lines 81-99: the expander the unit goes on with after its own Record
Expander(URL) ==
  IF ~config.ParseWaybackRobots /\ ~config.ParseWaybackSource THEN "none"
  ELSE IF mediaURLRegex(URL) THEN "none"
  ELSE IF config.ParseWaybackRobots /\ robotsURLsRegex(URL) THEN "robots"
  ELSE IF config.ParseWaybackSource /\ ~robotsURLsRegex(URL) THEN "source"
  ELSE "none"

\* lines 92 and 101: the URL whose scope is tested before a candidate is sent
Checked(URL, candidate) == URL

\* a unit without the test of lines 75-77
UnitScopeUntested(u) ==
  /\ Running(u)
  /\ units[u].pc = "scope"
  /\ units' = [units EXCEPT ![u].pc = "emit"]
  /\ UNCHANGED <<config, domain, response, producer, waybackURLs, dispatcher, wg,
                 URLsChannel, consumer, limiter, call>>

\* lines 75-77
UnitScope(u) ==
  /\ Running(u)
  /\ units[u].pc = "scope"
  /\ IF IsInScope(units[u].URL, domain, config.IncludeSubdomains)
     THEN /\ units' = [units EXCEPT ![u].pc = "emit"]
          /\ wg' = wg
     ELSE /\ units' = [units EXCEPT ![u] = Returned(@)]
          /\ wg' = Done(wg)
  /\ UNCHANGED <<config, domain, response, producer, waybackURLs, dispatcher,
                 URLsChannel, consumer, limiter, call>>

\* line 79, then the choice of lines 81-99
UnitEmit(u) ==
  /\ Running(u)
  /\ units[u].pc = "emit"
  /\ CanSend
  /\ LET e == Expander(units[u].URL)
         unit == Sent(units[u], Name, units[u].URL)
     IN IF e = "none"
        THEN /\ units' = [units EXCEPT ![u] = Returned(unit)]
             /\ wg' = Done(wg)
        ELSE /\ units' = [units EXCEPT ![u] = [unit EXCEPT !.pc = "snapshots", !.expander = e]]
             /\ wg' = wg
  /\ UNCHANGED <<config, domain, response, producer, waybackURLs, dispatcher,
                 URLsChannel, consumer, limiter, call>>

\* the expander enumerates the snapshots of the URL: its call of
\* getWaybackSnapshots gets past limiter.Wait and issues the request (lines
\* 156-160)
UnitSnapshotsWait(u) ==
  /\ Running(u)
  /\ units[u].pc = "snapshots"
  /\ units' = [units EXCEPT ![u].pc = "snapshotsGet"]
  /\ limiter' = Request(Acquire(limiter), "snapshots")
  /\ UNCHANGED <<config, domain, response, producer, waybackURLs, dispatcher, wg,
                 URLsChannel, consumer, call>>

\* SimpleGet returns and getWaybackSnapshots returns (lines 160-180)
UnitSnapshots(u) ==
  /\ Running(u)
  /\ units[u].pc = "snapshotsGet"
  /\ \E res \in ArchiveSnapshots(units[u].URL) :
       LET ret == getWaybackSnapshots(res) IN
       units' = [units EXCEPT ![u].pc = "content",
                              ![u].snapshots = IF ret.err THEN <<>> ELSE ret.snapshots]
  /\ UNCHANGED <<config, domain, response, producer, waybackURLs, dispatcher, wg,
                 URLsChannel, consumer, limiter, call>>

\* the expander fetches the next snapshot: its call of getWaybackContent
\* gets past limiter.Wait and issues the request (lines 189-193)
UnitContentWait(u) ==
  /\ Running(u)
  /\ units[u].pc = "content"
  /\ units[u].snapshots # <<>>
  /\ units[u].candidates = <<>>
  /\ units' = [units EXCEPT ![u].pc = "contentGet"]
  /\ limiter' = Request(Acquire(limiter), "content")
  /\ UNCHANGED <<config, domain, response, producer, waybackURLs, dispatcher, wg,
                 URLsChannel, consumer, call>>

\* SimpleGet returns and getWaybackContent returns (lines 193-213); a
\* failure or an empty content is skipped
UnitContent(u) ==
  /\ Running(u)
  /\ units[u].pc = "contentGet"
  /\ \E res \in ArchiveContents :
       LET ret == getWaybackContent(res) IN
       units' = [units EXCEPT ![u].pc = "content",
                              ![u].snapshots = Tail(@),
                              ![u].candidates =
                                 IF ret.err THEN <<>>
                                 ELSE Candidates(units[u].expander, domain, ret.content)]
  /\ UNCHANGED <<config, domain, response, producer, waybackURLs, dispatcher, wg,
                 URLsChannel, consumer, limiter, call>>

\* the unit is at the send of line 96 or 105
AtSend(unit) ==
  /\ unit.pc = "content"
  /\ unit.candidates # <<>>
  /\ IsInScope(Checked(unit.URL, Head(unit.candidates)), domain, config.IncludeSubdomains)

\* lines 91-97 and 100-106: one turn of the range over the expander's output
UnitCandidate(u) ==
  /\ Running(u)
  /\ units[u].pc = "content"
  /\ units[u].candidates # <<>>
  /\ LET c == Head(units[u].candidates)
         unit == [units[u] EXCEPT !.candidates = Tail(@)]
     IN IF AtSend(units[u])
        THEN /\ CanSend
             /\ units' = [units EXCEPT ![u] = Sent(unit, Tag(unit.expander), c)]
        ELSE units' = [units EXCEPT ![u] = unit]
  /\ UNCHANGED <<config, domain, response, producer, waybackURLs, dispatcher, wg,
                 URLsChannel, consumer, limiter, call>>

\* the expander's output is closed: the range ends and the unit returns
UnitExpanded(u) ==
  /\ Running(u)
  /\ units[u].pc = "content"
  /\ units[u].snapshots = <<>>
  /\ units[u].candidates = <<>>
  /\ units' = [units EXCEPT ![u] = Returned(@)]
  /\ wg' = Done(wg)
  /\ UNCHANGED <<config, domain, response, producer, waybackURLs, dispatcher,
                 URLsChannel, consumer, limiter, call>>

(***************************************************************************)
(* The caller of Run.                                                      *)
(***************************************************************************)
\* the caller stops receiving from the stream Run returned
ConsumerStop ==
  /\ consumer
  /\ URLsChannel.closes = 0
  /\ consumer' = FALSE
  /\ UNCHANGED <<config, domain, response, producer, waybackURLs, dispatcher, wg,
                 units, URLsChannel, limiter, call>>

Unit(u) ==
  \/ UnitScope(u)
  \/ UnitEmit(u)
  \/ UnitSnapshotsWait(u)
  \/ UnitSnapshots(u)
  \/ UnitContentWait(u)
  \/ UnitContent(u)
  \/ UnitCandidate(u)
  \/ UnitExpanded(u)

Next ==
  \/ IndexRewrite
  \/ IndexWait
  \/ IndexFetch
  \/ Dispatch
  \/ ProducerClose
  \/ RangeEnd
  \/ WaitClose
  \/ \E u \in 1..MaxLines : Unit(u)
  \/ ConsumerStop

Spec == Init /\ [][Next]_vars

\* the next step of the producer goroutine, and of the dispatcher goroutine
Producer == IndexRewrite \/ IndexWait \/ IndexFetch \/ Dispatch \/ ProducerClose
Dispatcher == RangeEnd \/ WaitClose

\* every goroutine that can take a step takes one; the caller need not
FairSpec ==
  /\ Spec
  /\ WF_vars(Producer)
  /\ WF_vars(Dispatcher)
  /\ \A u \in 1..MaxLines : WF_vars(Unit(u))

(***************************************************************************)
(* The fetchers on their own, called side by side as the producer and the  *)
(* units call them: a call gets past limiter.Wait and issues its request,  *)
(* and later returns on a response drawn from the bounded sets above.      *)
(***************************************************************************)
FetchInit ==
  /\ config \in Configurations
  /\ domain = RootDomain
  /\ response = [failure |-> "transport", lines |-> <<>>]
  /\ producer = [pc |-> "rewrite", results |-> <<>>, index |-> 1]
  /\ waybackURLs = "open"
  /\ dispatcher = "range"
  /\ wg = 0
  /\ units = <<>>
  /\ URLsChannel = [closes |-> 0]
  /\ consumer = TRUE
  /\ limiter = [waits |-> 0, index |-> 0, snapshots |-> 0, content |-> 0]
  /\ call = NoCall

\* a call of a fetcher gets past limiter.Wait and issues its request (lines
\* 124-128, 156-160, 189-193); it is then in SimpleGet.  Before that step a
\* call has changed nothing: any number of calls are blocked in limiter.Wait
\* in every state.
CallWait(kind) ==
  /\ limiter.waits < MaxCalls
  /\ limiter' = Request(Acquire(limiter), kind)
  /\ call' = [call EXCEPT !.flying[kind] = @ + 1]
  /\ UNCHANGED <<config, domain, response, producer, waybackURLs, dispatcher, wg,
                 units, URLsChannel, consumer>>

\* the calls left in SimpleGet when one of the kind returns
Landed(kind) == [call.flying EXCEPT ![kind] = @ - 1]

\* SimpleGet returns in a call of getWaybackURLs, and the call returns
CallURLs ==
  /\ call.flying.index > 0
  /\ \E res \in IndexResponses :
       call' = [fn |-> "getWaybackURLs", res |-> res, ret |-> getWaybackURLs(res),
                flying |-> Landed("index")]
  /\ UNCHANGED <<config, domain, response, producer, waybackURLs, dispatcher, wg,
                 units, URLsChannel, consumer, limiter>>

\* SimpleGet returns in a call of getWaybackSnapshots, and the call returns
CallSnapshots ==
  /\ call.flying.snapshots > 0
  /\ \E URL \in Lines \ {Blank} : \E res \in SnapshotResponses(URL) :
       call' = [fn |-> "getWaybackSnapshots", res |-> res, ret |-> getWaybackSnapshots(res),
                flying |-> Landed("snapshots")]
  /\ UNCHANGED <<config, domain, response, producer, waybackURLs, dispatcher, wg,
                 units, URLsChannel, consumer, limiter>>

\* SimpleGet returns in a call of getWaybackContent, and the call returns
CallContent ==
  /\ call.flying.content > 0
  /\ \E res \in ContentResponses :
       call' = [fn |-> "getWaybackContent", res |-> res, ret |-> getWaybackContent(res),
                flying |-> Landed("content")]
  /\ UNCHANGED <<config, domain, response, producer, waybackURLs, dispatcher, wg,
                 units, URLsChannel, consumer, limiter>>

\* the URLs the choice of lines 81-99 is applied to
Classified ==
  (Lines \ {Blank}) \cup
  {UrlDeepRobots, UrlRobotsQuery, UrlFtpRobots, UrlRobotsDash, UrlMediaRobots,
   UrlMediaUpper, UrlMediaMixed, UrlRobotsSpace, UrlRobotsQuote, UrlSpaceRobots,
   UrlRobotsQueryRobots, UrlDeepRobotsQuery, UrlRobotsFragment, UrlRobotsMark,
   UrlNoHostRobots}

CallExpander ==
  /\ \E URL \in Classified :
       call' = [fn |-> "Expander", URL |-> URL, ret |-> Expander(URL),
                flying |-> call.flying]
  /\ UNCHANGED <<config, domain, response, producer, waybackURLs, dispatcher, wg,
                 units, URLsChannel, consumer, limiter>>

FetchNext ==
  \/ \E kind \in {"index", "snapshots", "content"} : CallWait(kind)
  \/ CallURLs
  \/ CallSnapshots
  \/ CallContent
  \/ CallExpander

FetchSpec == FetchInit /\ [][FetchNext]_vars

(***************************************************************************)
(* What the claims speak of.                                               *)
(***************************************************************************)
\* in scope per the Scope Spec: the root domain given to Run and the flag
ScopeSpec(URL) == IsInScope(URL, RootDomain, config.IncludeSubdomains)

\* the Records received from the output stream, each named by its unit and
\* its position among the Records of that unit
Emitted == UNION {{<<u, i>> : i \in 1..Len(units[u].sent)} : u \in 1..Len(units)}
Record(e) == units[e[1]].sent[e[2]]

Closed == URLsChannel.closes > 0

\* the sequence the Index Fetcher contributes to the run
IndexResult == IF response.failure = "none" THEN response.lines ELSE <<>>
Occurrences(seq, v) == Cardinality({i \in 1..Len(seq) : seq[i] = v})
EmittedAs(Source, Value) ==
  Cardinality({e \in Emitted : Record(e) = [Source |-> Source, Value |-> Value]})

\* the path of a URL ends in "." and an extension of the media denylist
PathEndsInMedia(URL) ==
  LET stop == {j \in 3..Len(URL) : URL[j] \in {"?", "#"}}
      end == IF stop = {} THEN Len(URL)
             ELSE (CHOOSE j \in stop : \A k \in stop : j <= k) - 1
  IN /\ end >= HostEnd(URL, 3) + 3
     /\ URL[end - 1] = "."
     /\ \E ext \in MediaExts : Lower(URL[end]) = ext

(***************************************************************************)
(* C1: every Record sent on the output stream has a value that is in scope *)
(* per the Scope Spec, the candidates of the expanders included.           *)
(* Refuted by the code: lines 92 and 101 test the index URL, not the       *)
(* candidate.                                                              *)
(***************************************************************************)
C1_EmittedInScope == \A e \in Emitted : ScopeSpec(Record(e).Value)

(***************************************************************************)
(* C2: as long as the consumer keeps receiving, the output stream is       *)
(* eventually closed, whatever the archive answers.                        *)
(***************************************************************************)
C2_StreamCloses == <>(Closed \/ ~consumer)

\* the stream is closed after a run in which every unit expanded its URL
C2_Witness ==
  /\ Closed
  /\ consumer
  /\ Len(units) = MaxLines
  /\ \A u \in 1..Len(units) : units[u].expander # "none"
  /\ limiter.content > 0

(***************************************************************************)
(* C3: with both expansion flags off, once the stream is closed the        *)
(* Records emitted are exactly the non-blank index URLs that are in scope, *)
(* one "wayback" Record per occurrence, and no snapshot or content request *)
(* was issued.                                                             *)
(* Refuted by the code when includeSubdomains is set: the units test the   *)
(* scope against the rewritten domain of line 45.                          *)
(***************************************************************************)
C3_ExactWhenNoExpansion ==
  (Closed /\ ~config.ParseWaybackRobots /\ ~config.ParseWaybackSource) =>
    /\ \A v \in Lines \ {Blank} :
         EmittedAs(Name, v) = IF ScopeSpec(v) THEN Occurrences(IndexResult, v) ELSE 0
    /\ \A e \in Emitted : Record(e).Source = Name /\ Record(e).Value \in Lines \ {Blank}
    /\ limiter.snapshots = 0
    /\ limiter.content = 0

(***************************************************************************)
(* C4: a unit whose URL has a path ending in a media extension never       *)
(* invokes an expander, whatever the flags, and has emitted its URL as a   *)
(* "wayback" Record by the time it returns when the URL is in scope.       *)
(* Refuted by the code when includeSubdomains is set: the URL is dropped   *)
(* by the scope test against the rewritten domain.                         *)
(***************************************************************************)
C4_MediaNeverExpanded ==
  \A u \in 1..Len(units) :
    PathEndsInMedia(units[u].URL) =>
      /\ units[u].expander = "none"
      /\ units[u].pc \notin {"snapshots", "snapshotsGet", "content", "contentGet"}
      /\ (units[u].pc = "done" /\ ScopeSpec(units[u].URL)) =>
           units[u].sent = <<[Source |-> Name, Value |-> units[u].URL]>>

(***************************************************************************)
(* C5: for a response that was fetched and parsed, getWaybackSnapshots     *)
(* returns no snapshot when the response is empty or holds 0 or 1 entries, *)
(* and otherwise the entries after the first, as decoded and in their      *)
(* order.                                                                  *)
(* Refuted by the code for one entry: line 174 returns it.                 *)
(***************************************************************************)
C5_SnapshotsDropFirst ==
  (/\ call.fn = "getWaybackSnapshots"
   /\ call.res.kind \in {"nolength", "null", "json"}
   /\ ~TypeError(call.res.entries)) =>
    /\ ~call.ret.err
    /\ call.ret.snapshots =
         IF Len(call.res.entries) < 2 THEN <<>>
         ELSE [i \in 1..(Len(call.res.entries) - 1) |-> Pair(call.res.entries[i + 1])]

(***************************************************************************)
(* C6: getWaybackContent tells three outcomes of a fetched body apart: a   *)
(* body holding the fingerprint gives an error, an empty body gives empty  *)
(* content and no error, any other body gives that body and no error.      *)
(***************************************************************************)
C6_ContentOutcomes ==
  (call.fn = "getWaybackContent" /\ ~call.res.failure) =>
    LET body == call.res.body
        unavailable == Fingerprint \in {body[i] : i \in DOMAIN body}
    IN /\ unavailable => call.ret.err
       /\ body = <<>> => (call.ret.content = <<>> /\ ~call.ret.err)
       /\ (body # <<>> /\ ~unavailable) => (call.ret.content = body /\ ~call.ret.err)

\* a body that holds the fingerprint after other text was fetched
C6_Witness ==
  /\ call.fn = "getWaybackContent"
  /\ ~call.res.failure
  /\ Len(call.res.body) > 1
  /\ call.res.body[1] # Fingerprint
  /\ call.res.body[Len(call.res.body)] = Fingerprint
  /\ call.ret.err

(***************************************************************************)
(* C7: the output stream is closed at most once, and only after the        *)
(* producer has closed the internal stream and every unit that was started *)
(* has returned; no unit is left that could send on the closed stream.     *)
(***************************************************************************)
C7_BarrierSafety ==
  /\ URLsChannel.closes <= 1
  /\ dispatcher = "done" => URLsChannel.closes = 1
  /\ Closed =>
       /\ waybackURLs = "closed"
       /\ producer.pc = "done"
       /\ wg = 0
       /\ \A u \in 1..Len(units) : units[u].pc = "done"

\* the stream is closed after MaxLines units ran, one of them an expansion
\* that emitted a candidate
C7_Witness ==
  /\ Closed
  /\ Len(units) = MaxLines
  /\ \E u \in 1..Len(units) : Len(units[u].sent) > 1

(***************************************************************************)
(* C8: when the index fetch fails (transport or scan error) no URL reaches *)
(* the dispatcher, no unit is started, no Record is emitted, and the       *)
(* internal stream and then the output stream are closed.                  *)
(***************************************************************************)
C8_IndexFailureIsEmpty ==
  response.failure # "none" =>
    /\ units = <<>>
    /\ wg = 0
    /\ Emitted = {}
    /\ producer.pc = "done" => waybackURLs = "closed"
    /\ Closed => waybackURLs = "closed"
    /\ dispatcher = "done" => Closed

\* the scanner failed after it had read a URL, and the stream is closed
C8_Witness ==
  /\ response.failure = "scan"
  /\ NonBlank(response.lines) # <<>>
  /\ Closed

(***************************************************************************)
(* C9: the first Record a unit emits is {"wayback", its index URL}; every  *)
(* later Record of the unit comes from its expander and carries            *)
(* "wayback:robots" for the Robots Expander, "wayback:source" for the      *)
(* Source Expander. For the index result [robots URL] with parseRobots and *)
(* one extracted URL the stream carries the robots URL, then the           *)
(* "wayback:robots" Record.                                                *)
(***************************************************************************)
C9_OrderAndProvenance ==
  /\ \A u \in 1..Len(units) :
       LET sent == units[u].sent IN
       /\ sent # <<>> => sent[1] = [Source |-> "wayback", Value |-> units[u].URL]
       /\ \A i \in 2..Len(sent) :
            /\ units[u].expander \in {"robots", "source"}
            /\ units[u].expander = "robots" => sent[i].Source = "wayback:robots"
            /\ units[u].expander = "source" => sent[i].Source = "wayback:source"
  /\ (response.lines = <<UrlRobots>> /\ Len(units) = 1 /\ Len(units[1].sent) = 2) =>
       /\ config.ParseWaybackRobots
       /\ units[1].sent[1] = [Source |-> "wayback", Value |-> UrlRobots]
       /\ units[1].sent[2].Source = "wayback:robots"

\* the scenario of the claim, run to the end
C9_Witness ==
  /\ response.lines = <<UrlRobots>>
  /\ Closed
  /\ Len(units) = 1
  /\ units[1].sent = <<[Source |-> "wayback", Value |-> UrlRobots],
                       [Source |-> "wayback:robots", Value |-> CandIn]>>

(***************************************************************************)
(* C10: once the consumer has stopped, a unit that is at a send stays      *)
(* there, the consumer stays stopped and the output stream stays open; as  *)
(* long as the consumer receives, no unit stays at a send forever.         *)
(***************************************************************************)
Sending(u) == Running(u) /\ (units[u].pc = "emit" \/ AtSend(units[u]))

C10_BlockedForever ==
  /\ [][\A u \in 1..MaxLines :
          (Sending(u) /\ ~consumer) =>
            /\ ~Closed
            /\ units'[u] = units[u]
            /\ ~consumer'
            /\ URLsChannel'.closes = 0]_vars
  /\ \A u \in 1..MaxLines : []<>(~Sending(u) \/ ~consumer)

\* a unit is at the send of a candidate and the consumer has stopped
C10_Witness ==
  /\ ~consumer
  /\ \E u \in 1..Len(units) : AtSend(units[u])

(***************************************************************************)
(* C11: every request (index, snapshot, content) is made after one         *)
(* limiter.Wait() of its own on the one shared limiter: the requests       *)
(* issued never exceed the completed waits, and by the end of the run      *)
(* there was one wait per request.                                         *)
(***************************************************************************)
C11_RequestsUnderLimiter ==
  /\ limiter.index + limiter.snapshots + limiter.content <= limiter.waits
  /\ Closed => limiter.waits = limiter.index + limiter.snapshots + limiter.content

\* requests of all three kinds were made by units running side by side
C11_Witness ==
  /\ limiter.index = 1
  /\ limiter.snapshots = MaxLines
  /\ limiter.content > 0
  /\ \E u \in 1..Len(units) : units[u].pc # "done"

(***************************************************************************)
(* C12: a unit invokes at most one expander: the Robots Expander only with *)
(* parseRobots on a URL robotsURLsRegex matches, the Source Expander only  *)
(* with parseSource on a URL it does not match; a robots URL never reaches *)
(* the Source Expander, nor any other URL the Robots Expander.             *)
(***************************************************************************)
C12_DispatchRule ==
  \A u \in 1..Len(units) :
    LET unit == units[u] IN
    /\ unit.expander = "robots" =>
         (config.ParseWaybackRobots /\ robotsURLsRegex(unit.URL))
    /\ unit.expander = "source" =>
         (config.ParseWaybackSource /\ ~robotsURLsRegex(unit.URL))
    /\ unit.pc \in {"snapshots", "snapshotsGet", "content", "contentGet"} =>
         unit.expander # "none"
    /\ \A i \in 2..Len(unit.sent) : unit.sent[i].Source = Tag(unit.expander)
    /\ (robotsURLsRegex(unit.URL) /\ ~config.ParseWaybackRobots) =>
         (unit.expander = "none" /\ Len(unit.sent) <= 1)

\* a robots URL went through a run with parseSource alone: emitted, not expanded
C12_Witness ==
  /\ ~config.ParseWaybackRobots
  /\ config.ParseWaybackSource
  /\ \E u \in 1..Len(units) :
       /\ units[u].URL = UrlRobots
       /\ units[u].pc = "done"
       /\ units[u].sent = <<[Source |-> Name, Value |-> UrlRobots]>>
       /\ units[u].expander = "none"

(***************************************************************************)
(* C13, as stated: a URL is classified as a robots URL, and with           *)
(* parseRobots handed to the Robots Expander, if and only if its path is   *)
(* exactly /robots.txt.                                                    *)
(* Refuted by the code: robotsURLsRegex accepts any http(s) URL that ends  *)
(* in /robots.txt, below a directory too, and none with a query.           *)
(***************************************************************************)
\* the path of a URL: from the first "/" after the host up to "?" or "#"
Path(URL) ==
  LET from == HostEnd(URL, 3) + 1
      stop == {j \in from..Len(URL) : URL[j] \in {"?", "#"}}
      to == IF stop = {} THEN Len(URL)
            ELSE (CHOOSE j \in stop : \A k \in stop : j <= k) - 1
  IN SubSeq(URL, from, to)

C13_RobotsIffExactPath ==
  call.fn = "Expander" =>
    (call.ret = "robots" <=>
       (config.ParseWaybackRobots /\ Path(call.URL) = <<"/", "robots", ".", "txt">>))

(***************************************************************************)
(* C13, amended: the classification reads the whole text of the URL, query *)
(* and fragment included, not its path.  A URL is a robots URL, and with   *)
(* parseRobots is handed to the Robots Expander, if and only if its text   *)
(* starts with http:// or https://, ends in /robots.txt (any one character *)
(* in place of the dot, a space or a double quote included), holds         *)
(* something but no space and no double quote between the two, and is not  *)
(* a media URL.  No such URL is handed to the Source Expander; with        *)
(* parseSource every other URL that is not a media URL is.  So:            *)
(*  - a URL without query and fragment is a robots URL exactly when its    *)
(*    path ends in /robots.txt, at the root or below any directory         *)
(*    (http://example.com/a/robots.txt);                                   *)
(*  - a URL whose path ends in /robots.txt and that has a query or a       *)
(*    fragment is a robots URL exactly when the query or fragment itself   *)
(*    ends in /robots.txt: https://example.com/robots.txt?u=/robots.txt is *)
(*    one, https://example.com/robots.txt?x and                            *)
(*    http://example.com/a/robots.txt?x are not and go to the Source       *)
(*    Expander;                                                            *)
(*  - the path alone does not decide: http://example.com/robots?txt, whose *)
(*    path is /robots, is a robots URL.                                    *)
(***************************************************************************)
\* what follows the path: the query and the fragment
Rest(URL) == SubSeq(URL, HostEnd(URL, 3) + Len(Path(URL)) + 1, Len(URL))

\* the text ends in "/robots", one character, "txt"
RobotsTxtAt(text) ==
  LET n == Len(text) IN
  /\ n >= 4
  /\ <<text[n - 3], text[n - 2], text[n]>> = <<"/", "robots", "txt">>
  /\ text[n - 1] \in OneChar

\* http:// or https://, and neither space nor double quote before the last
\* four tokens
Web(URL) ==
  /\ Len(URL) >= 2
  /\ URL[1] \in {"http", "https"} /\ URL[2] = "://"
  /\ {" ", "\""} \cap {URL[i] : i \in 3..(Len(URL) - 4)} = {}

EndsInRobotsTxt(URL) == Web(URL) /\ Len(URL) >= 7 /\ RobotsTxtAt(URL)

C13_RobotsIffSuffix ==
  call.fn = "Expander" =>
    LET URL == call.URL
        robots == call.ret = "robots"
        expandable == config.ParseWaybackRobots /\ ~mediaURLRegex(URL)
    IN /\ robots <=> (expandable /\ EndsInRobotsTxt(URL))
       /\ EndsInRobotsTxt(URL) => call.ret # "source"
       /\ (config.ParseWaybackSource /\ ~mediaURLRegex(URL) /\ ~EndsInRobotsTxt(URL)) =>
            call.ret = "source"
       /\ (expandable /\ Web(URL) /\ Host(URL) # <<>> /\ Rest(URL) = <<>>) =>
            (robots <=> RobotsTxtAt(Path(URL)))
       /\ (expandable /\ Web(URL) /\ RobotsTxtAt(Path(URL)) /\ Rest(URL) # <<>>) =>
            (robots <=> RobotsTxtAt(Rest(URL)))
       /\ URL = UrlDeepRobots => (robots <=> config.ParseWaybackRobots)
       /\ URL = UrlRobotsQueryRobots => (robots <=> config.ParseWaybackRobots)
       /\ URL = UrlRobotsMark => (robots <=> config.ParseWaybackRobots)
       /\ URL \in {UrlRobotsQuery, UrlDeepRobotsQuery} =>
            /\ ~robots
            /\ config.ParseWaybackSource => call.ret = "source"

\* the URL below a directory was classified with parseRobots set
C13_Witness ==
  /\ call.fn = "Expander"
  /\ call.URL = UrlDeepRobots
  /\ call.ret = "robots"

(***************************************************************************)
(* C14: the wildcard rewrite touches the index query alone: the domain the *)
(* units hand to the scope test and to the Source Expander is the one      *)
(* given to Run, so with includeSubdomains every index URL on the root     *)
(* domain or a subdomain of it is emitted.                                 *)
(* Refuted by the code: line 45 assigns to the variable domain that the    *)
(* units' closures read at lines 75, 92, 100 and 101.                      *)
(***************************************************************************)
C14_RewriteOnlyQuery ==
  /\ units # <<>> => domain = RootDomain
  /\ \A u \in 1..Len(units) :
       (units[u].pc = "done" /\ ScopeSpec(units[u].URL)) => units[u].sent # <<>>

(***************************************************************************)
(* C15: a unit whose URL fails the scope test of line 75 returns at once:  *)
(* it emits no Record, invokes no expander, causes no snapshot or content  *)
(* request, and tells the barrier that it is done.                         *)
(***************************************************************************)
Live == {u \in 1..Len(units) : units[u].pc # "done"}
Dropped == {u \in 1..Len(units) :
              /\ units[u].pc # "scope"
              /\ ~IsInScope(units[u].URL, domain, config.IncludeSubdomains)}

C15_OutOfScopeSilent ==
  /\ \A u \in Dropped :
       /\ units[u].pc = "done"
       /\ units[u].sent = <<>>
       /\ units[u].expander = "none"
  /\ wg = Cardinality(Live)
  /\ limiter.snapshots <= Len(units) - Cardinality(Dropped)
  /\ limiter.content > 0 => limiter.snapshots > 0

\* a subdomain URL was dropped in a run with both expanders on, while
\* another unit of the run expanded its URL
C15_Witness ==
  /\ config.ParseWaybackRobots /\ config.ParseWaybackSource
  /\ Closed
  /\ wg = 0
  /\ \E u \in Dropped : units[u].URL = UrlSub
  /\ limiter.snapshots = Len(units) - Cardinality(Dropped)
  /\ limiter.snapshots > 0

(***************************************************************************)
(* C16: the dispatcher starts one unit per URL of the index result without *)
(* waiting for an earlier unit: while the producer has URLs left the       *)
(* dispatcher is at its receive, and whatever the units do (blocked at a   *)
(* send for a consumer that stopped, or inside an expansion) every URL of  *)
(* the index result is received and gets its unit, after which the         *)
(* producer returns.                                                       *)
(***************************************************************************)
C16_FanOut ==
  /\ [](producer.pc = "send" => dispatcher = "range")
  /\ [](Len(units) <= Len(producer.results))
  /\ (producer.pc = "send") ~>
       (producer.pc = "done" /\ Len(units) = Len(producer.results))

\* MaxLines units are live at once, one of them blocked at its send for a
\* consumer that has stopped
C16_Witness ==
  /\ Len(units) = MaxLines
  /\ \A u \in 1..Len(units) : units[u].pc # "done"
  /\ ~consumer
  /\ \E u \in 1..Len(units) : Sending(u)
  /\ \E u \in 1..Len(units) : units[u].pc = "scope"

(***************************************************************************)
(* C17: whatever the flags and whatever the outcomes of the snapshot and   *)
(* content fetches, once the stream is closed every non-blank entry of the *)
(* index result that is in scope has produced exactly one "wayback"        *)
(* Record, one per occurrence, and blank or out-of-scope entries none.     *)
(* Refuted by the code when includeSubdomains is set: the units test the   *)
(* scope against the rewritten domain of line 45 (C14).                    *)
(***************************************************************************)
WaybackRecords(u) ==
  {i \in 1..Len(units[u].sent) : units[u].sent[i].Source = Name}

C17_OneWaybackRecordPerEntry ==
  Closed =>
    /\ Len(units) = Len(NonBlank(IndexResult))
    /\ \A u \in 1..Len(units) :
         /\ units[u].URL = NonBlank(IndexResult)[u]
         /\ \A i \in WaybackRecords(u) : units[u].sent[i].Value = units[u].URL
         /\ Cardinality(WaybackRecords(u)) = IF ScopeSpec(units[u].URL) THEN 1 ELSE 0

(***************************************************************************)
(* C18: no retry and no abort.  A run issues exactly one index request,    *)
(* each getWaybackSnapshots and each getWaybackContent exactly one         *)
(* request, whether the fetch succeeds or fails; a fetch, failed or not,   *)
(* changes the state of the one unit that made it and of no other, and a   *)
(* unit never goes back to a fetch it has made.                            *)
(***************************************************************************)
Expanding == {u \in 1..Len(units) : units[u].expander # "none"}

C18_NoRetryNoAbort ==
  /\ [](limiter.index = IF producer.pc \in {"rewrite", "wait"} THEN 0 ELSE 1)
  /\ [](producer.pc \in {"rewrite", "wait", "get"} => producer.results = <<>>)
  /\ [](limiter.snapshots =
          Cardinality({u \in Expanding : units[u].pc # "snapshots"}))
  /\ [][limiter' # limiter =>
          /\ limiter'.waits = limiter.waits + 1
          /\ \/ /\ limiter' = [limiter EXCEPT !.waits = @ + 1, !.index = @ + 1]
                /\ units' = units
             \/ \E u \in 1..Len(units) :
                  /\ \A v \in 1..Len(units) : v # u => units'[v] = units[v]
                  /\ \/ /\ limiter'.snapshots = limiter.snapshots + 1
                        /\ limiter'.content = limiter.content
                        /\ units[u].pc = "snapshots" /\ units'[u].pc = "snapshotsGet"
                     \/ /\ limiter'.content = limiter.content + 1
                        /\ limiter'.snapshots = limiter.snapshots
                        /\ units[u].pc = "content" /\ units'[u].pc = "contentGet"
                        /\ units'[u].snapshots = units[u].snapshots]_vars
  /\ [][\A u \in 1..Len(units) :
          /\ units[u].pc = "snapshotsGet" => units'[u].pc \in {"snapshotsGet", "content"}
          /\ units[u].pc = "contentGet" =>
               \/ units'[u] = units[u]
               \/ /\ units'[u].pc = "content"
                  /\ units'[u].snapshots = Tail(units[u].snapshots)
          /\ units[u].pc = "content" => units'[u].pc \in {"content", "contentGet", "done"}
          /\ units[u].pc = "done" => units'[u] = units[u]
          /\ units'[u].pc # units[u].pc /\ units'[u].pc = "snapshotsGet" =>
               limiter'.snapshots = limiter.snapshots + 1
          /\ units'[u].pc # units[u].pc /\ units'[u].pc = "contentGet" =>
               limiter'.content = limiter.content + 1
          /\ Len(units'[u].snapshots) < Len(units[u].snapshots) =>
               units[u].pc = "contentGet" /\ limiter' = limiter]_vars

\* the stream is closed after one index request and MaxLines snapshot
\* requests; one expansion ended with nothing to emit, another emitted a
\* candidate after its content request
C18_Witness ==
  /\ Closed
  /\ limiter.index = 1
  /\ limiter.snapshots = MaxLines
  /\ limiter.content > 0
  /\ \E u \in Expanding : Len(units[u].sent) = 1
  /\ \E u \in Expanding : Len(units[u].sent) > 1

(***************************************************************************)
(* C19: no race on the captured variable domain.  Its only write, the      *)
(* rewrite of line 45, happens while the producer has sent nothing and no  *)
(* unit exists; a unit exists only after the dispatcher received its URL,  *)
(* which is after the write, so every read of domain by a unit (lines 75,  *)
(* 92, 100, 101) returns the value the write left, and domain never        *)
(* changes while a unit can read it.                                       *)
(***************************************************************************)
C19_NoRaceOnDomain ==
  /\ [][domain' # domain =>
          /\ producer.pc = "rewrite" /\ producer.index = 1
          /\ limiter.waits = 0
          /\ units = <<>> /\ units' = <<>>
          /\ domain = RootDomain]_vars
  /\ [](units # <<>> => (producer.pc \in {"send", "done"} /\ domain = Wildcard(RootDomain)))
  /\ [](producer.pc = "rewrite" => domain = RootDomain)
  /\ [](producer.pc \in {"rewrite", "wait", "get"} => producer.index = 1)

\* domain was rewritten, a unit has read it and returned, and the producer
\* is still in its loop
C19_Witness ==
  /\ config.IncludeSubdomains
  /\ domain # RootDomain
  /\ producer.pc = "send"
  /\ NextSend(producer.results, producer.index) <= Len(producer.results)
  /\ \E u \in 1..Len(units) : units[u].pc = "done"

====
